---- MODULE Spec2Model ----
(***************************************************************************)
(* Face blur microservice (unyieldserver/face_blur_service.py).            *)
(*                                                                         *)
(* Two specifications over one set of variables:                           *)
(*   SpecPipe  one call of process_video, stepped statement by statement   *)
(*             (open, properties, read, detect, blur, write, progress,     *)
(*             release / except);                                          *)
(*   Spec      the HTTP service: concurrent POST /blur requests and        *)
(*             GET /health over a shared temporary directory, where the    *)
(*             call of process_video runs the same steps to completion.    *)
(***************************************************************************)
EXTENDS Integers, Sequences, FiniteSets, TLC

VARIABLES pv,        \* the state of the process_video call (SpecPipe)
          reqs,      \* request id -> state of its blur_video handler
          files,     \* paths that exist in the temporary directory
          healthLog  \* the last response of GET /health

vars == <<pv, reqs, files, healthLog>>

(***************************************************************************)
(* Bounds and program constants                                            *)
(***************************************************************************)
MaxRect == 2          \* distinct face rectangles the classifier can report
MaxLen == 2           \* frames of the short videos
NumReq == 2           \* POST /blur requests
ProgressEvery == 30   \* frame_count % 30

Rects == 1..MaxRect
Requests == 1..NumReq
Names == 1..NumReq     \* names tempfile draws from: one is always free

(***************************************************************************)
(* Videos.  A frame's content is the set of rectangles the (read-only)     *)
(* classifier reports on it.  total is what the container reports as       *)
(* CAP_PROP_FRAME_COUNT, opens is cap.isOpened(), writerOk is whether      *)
(* cv2.VideoWriter could open output_path, and the fault is an exception   *)
(* the library raises at one stage of one frame (faultAt = 0: none).       *)
(***************************************************************************)
RECURSIVE SeqsUpTo(_, _)
SeqsUpTo(S, n) ==
    IF n = 0 THEN {<<>>}
    ELSE LET shorter == SeqsUpTo(S, n - 1)
         IN  shorter \cup {Append(q, x) : q \in {p \in shorter : Len(p) = n - 1}, x \in S}

LongFrames(n) == [i \in 1..n |-> IF i % 2 = 0 THEN {1} ELSE {}]

FrameSeqs == SeqsUpTo(SUBSET Rects, MaxLen)
                \cup {LongFrames(ProgressEvery), LongFrames(ProgressEvery + 1)}

Stages == {"read", "detect", "blur", "write"}

Faults == {[at |-> 0, stage |-> "none"]}
              \cup {[at |-> a, stage |-> st] : a \in {1, 2}, st \in Stages}

NoFault == [at |-> 0, stage |-> "none"]

\* A file that does not open has no other property that is ever looked at.
Videos ==
    UNION {{[frames |-> f, total |-> t, opens |-> TRUE, writerOk |-> w, fault |-> fl] :
              t \in {0, Len(f)}, w \in BOOLEAN, fl \in Faults}
           \cup {[frames |-> f, total |-> Len(f), opens |-> FALSE, writerOk |-> TRUE,
                  fault |-> NoFault]} :
           f \in FrameSeqs}

NoVideo == [frames |-> <<>>, total |-> 0, opens |-> FALSE, writerOk |-> FALSE,
            fault |-> NoFault]

NoFrame == [idx |-> 0, faces |-> {}, blurred |-> {}]

(***************************************************************************)
(* detect_faces_in_frame and apply_face_blur                               *)
(***************************************************************************)
\* detectMultiScale on the frame: the rectangles of that frame's content.
detect_faces_in_frame(frame) == frame.faces

\* A copy of the frame with every rectangle of faces replaced by its blur.
apply_face_blur(frame, faces) == [frame EXCEPT !.blurred = @ \cup faces]

(***************************************************************************)
(* process_video, one statement group per step.  s is the state of the     *)
(* call: its locals (cap, out, total_frames, frame_count, faces_found,     *)
(* frame, faces), what it handed to out.write (written), the order of the  *)
(* library calls (trace), the exception it caught (exc) and its result.    *)
(***************************************************************************)
StartPV(v) ==
    [pc |-> "open", video |-> v,
     capOpen |-> FALSE, outOpen |-> FALSE, capOpened |-> FALSE, outOpened |-> FALSE,
     outCreated |-> FALSE,
     total_frames |-> 0, frame_count |-> 0, faces_found |-> 0,
     frame |-> NoFrame, faces |-> {},
     written |-> <<>>, trace |-> <<>>, reads |-> 0,
     exc |-> "", success |-> FALSE, result |-> 0]

NoPV == [StartPV(NoVideo) EXCEPT !.pc = "off"]

Raise(s, msg) == [s EXCEPT !.pc = "except", !.exc = msg]

FaultHere(s, stage, idx) == s.video.fault.stage = stage /\ s.video.fault.at = idx

Event(op, idx) == [op |-> op, idx |-> idx]

\* cap = cv2.VideoCapture(input_path); if not cap.isOpened(): raise
OpenStep(s) ==
    IF s.video.opens
    THEN [s EXCEPT !.pc = "props", !.capOpen = TRUE, !.capOpened = TRUE]
    ELSE Raise(s, "Could not open video file")

\* total_frames = int(cap.get(CAP_PROP_FRAME_COUNT)); out = cv2.VideoWriter(...);
\* frame_count = 0; faces_found = 0
PropsStep(s) ==
    [s EXCEPT !.pc = "read",
              !.total_frames = s.video.total,
              !.outOpen = s.video.writerOk,
              !.outOpened = s.video.writerOk,
              !.outCreated = s.video.writerOk,
              !.frame_count = 0,
              !.faces_found = 0]

\* ret, frame = cap.read(); if not ret: break; frame_count += 1
ReadStep(s) ==
    LET next == s.frame_count + 1
    IN  IF FaultHere(s, "read", next) THEN Raise(s, "cv2.error")
        ELSE IF next <= Len(s.video.frames)
        THEN [s EXCEPT !.pc = "detect",
                       !.reads = @ + 1,
                       !.frame = [idx |-> next, faces |-> s.video.frames[next],
                                  blurred |-> {}],
                       !.frame_count = next,
                       !.trace = Append(@, Event("read", next))]
        ELSE [s EXCEPT !.pc = "release",
                       !.reads = @ + 1,
                       !.trace = Append(@, Event("eof", next))]

\* faces = detect_faces_in_frame(frame)
DetectStep(s) ==
    IF FaultHere(s, "detect", s.frame_count) THEN Raise(s, "cv2.error")
    ELSE [s EXCEPT !.pc = "blur",
                   !.faces = detect_faces_in_frame(s.frame),
                   !.trace = Append(@, Event("detect", s.frame_count))]

\* Variant of BlurStep that keeps the rectangles of the frame written before
\* (a tracker carrying faces from one frame to the next).
BlurStepCarryOver(s) ==
    LET carried == s.faces \cup (IF Len(s.written) > 0
                                 THEN s.written[Len(s.written)].blurred ELSE {})
    IN  IF Cardinality(carried) > 0
        THEN IF FaultHere(s, "blur", s.frame_count) THEN Raise(s, "cv2.error")
             ELSE [s EXCEPT !.pc = "write",
                            !.faces_found = @ + Cardinality(carried),
                            !.frame = apply_face_blur(s.frame, carried),
                            !.trace = Append(@, Event("blur", s.frame_count))]
        ELSE [s EXCEPT !.pc = "write"]

\* if len(faces) > 0: faces_found += len(faces); frame = apply_face_blur(frame, faces)
BlurStep(s) ==
    IF Cardinality(s.faces) > 0
    THEN IF FaultHere(s, "blur", s.frame_count) THEN Raise(s, "cv2.error")
         ELSE [s EXCEPT !.pc = "write",
                        !.faces_found = @ + Cardinality(s.faces),
                        !.frame = apply_face_blur(s.frame, s.faces),
                        !.trace = Append(@, Event("blur", s.frame_count))]
    ELSE [s EXCEPT !.pc = "write"]

\* Variant of WriteStep with out.write inside the if: a frame without a face
\* is not written.
WriteStepFacesOnly(s) ==
    IF FaultHere(s, "write", s.frame_count) THEN Raise(s, "cv2.error")
    ELSE IF Cardinality(s.faces) = 0 THEN [s EXCEPT !.pc = "progress"]
    ELSE [s EXCEPT !.pc = "progress",
                   !.written = Append(@, s.frame),
                   !.trace = Append(@, Event("write", s.frame_count))]

\* out.write(frame)
WriteStep(s) ==
    IF FaultHere(s, "write", s.frame_count) THEN Raise(s, "cv2.error")
    ELSE [s EXCEPT !.pc = "progress",
                   !.written = Append(@, s.frame),
                   !.trace = Append(@, Event("write", s.frame_count))]

\* if frame_count % 30 == 0: progress = (frame_count / total_frames) * 100
ProgressStep(s) ==
    IF s.frame_count % ProgressEvery = 0
    THEN IF s.total_frames = 0 THEN Raise(s, "division by zero")
         ELSE [s EXCEPT !.pc = "read"]
    ELSE [s EXCEPT !.pc = "read"]

\* cap.release(); out.release(); return True, faces_found
ReleaseStep(s) ==
    [s EXCEPT !.pc = "returned", !.capOpen = FALSE, !.outOpen = FALSE,
              !.success = TRUE, !.result = s.faces_found]

\* except Exception as e: return False, 0.  No release is called here: whether
\* the handles are closed when the locals die is up to the runtime (finalized).
ExceptStep(s, finalized) ==
    [s EXCEPT !.pc = "returned",
              !.capOpen = IF finalized THEN FALSE ELSE @,
              !.outOpen = IF finalized THEN FALSE ELSE @,
              !.success = FALSE, !.result = 0]

PVStep(s) ==
    CASE s.pc = "open" -> OpenStep(s)
      [] s.pc = "props" -> PropsStep(s)
      [] s.pc = "read" -> ReadStep(s)
      [] s.pc = "detect" -> DetectStep(s)
      [] s.pc = "blur" -> BlurStep(s)
      [] s.pc = "write" -> WriteStep(s)
      [] s.pc = "progress" -> ProgressStep(s)
      [] s.pc = "release" -> ReleaseStep(s)
      [] s.pc = "except" -> ExceptStep(s, FALSE)
      [] OTHER -> s

\* process_video(input_path, output_path) run to its return.
RECURSIVE RunPV(_)
RunPV(s) == IF s.pc \in {"returned", "off"} THEN s ELSE RunPV(PVStep(s))

process_video(v) == RunPV(StartPV(v))

(***************************************************************************)
(* SpecPipe: one call of process_video on any video.                       *)
(***************************************************************************)
PipeOpen ==
    /\ pv.pc = "open"
    /\ pv' = OpenStep(pv)
    /\ UNCHANGED <<reqs, files, healthLog>>

PipeProps ==
    /\ pv.pc = "props"
    /\ pv' = PropsStep(pv)
    /\ UNCHANGED <<reqs, files, healthLog>>

PipeRead ==
    /\ pv.pc = "read"
    /\ pv' = ReadStep(pv)
    /\ UNCHANGED <<reqs, files, healthLog>>

PipeDetect ==
    /\ pv.pc = "detect"
    /\ pv' = DetectStep(pv)
    /\ UNCHANGED <<reqs, files, healthLog>>

PipeBlur ==
    /\ pv.pc = "blur"
    /\ pv' = BlurStep(pv)
    /\ UNCHANGED <<reqs, files, healthLog>>

PipeWrite ==
    /\ pv.pc = "write"
    /\ pv' = WriteStep(pv)
    /\ UNCHANGED <<reqs, files, healthLog>>

PipeProgress ==
    /\ pv.pc = "progress"
    /\ pv' = ProgressStep(pv)
    /\ UNCHANGED <<reqs, files, healthLog>>

PipeRelease ==
    /\ pv.pc = "release"
    /\ pv' = ReleaseStep(pv)
    /\ UNCHANGED <<reqs, files, healthLog>>

PipeExcept ==
    /\ pv.pc = "except"
    /\ \E finalized \in BOOLEAN : pv' = ExceptStep(pv, finalized)
    /\ UNCHANGED <<reqs, files, healthLog>>

(***************************************************************************)
(* The HTTP service.                                                       *)
(***************************************************************************)
\* What the client sent as the body of POST /blur.
Bodies == {"absent", "malformed", "empty_object", "object_without_key",
           "object_with_key", "string_with_key", "number"}

\* request.get_json(): the parsed value, or "raise" when the framework raises
\* (a malformed body always; an absent body depending on the framework version).
get_json(body) ==
    CASE body = "absent" -> {"None", "raise"}
      [] body = "malformed" -> {"raise"}
      [] OTHER -> {body}

\* not data
Falsy(data) == data \in {"None", "empty_object"}

\* 'videoUrl' in data: a key of an object, a substring of a string; a number
\* is not iterable.
HasVideoUrl(data) ==
    CASE data \in {"object_with_key", "string_with_key"} -> "True"
      [] data = "object_without_key" -> "False"
      [] OTHER -> "TypeError"

\* data['videoUrl']
Subscript(data) == IF data = "object_with_key" THEN "url" ELSE "TypeError"

NoPath == [dir |-> "", stem |-> 0, suffix |-> ""]

\* tempfile.NamedTemporaryFile(delete=False, suffix='.mp4').name
TempPath(n) == [dir |-> "/tmp", stem |-> n, suffix |-> ".mp4"]

\* input_path.replace('.mp4', '_blurred.mp4'): the directory and the random
\* stem hold no '.mp4', the suffix is replaced when it is '.mp4'.
ReplaceMp4(path) == [path EXCEPT !.suffix = IF @ = ".mp4" THEN "_blurred.mp4" ELSE @]

NoResp == [status |-> 0, success |-> FALSE, error |-> "", facesFound |-> 0,
           outputPath |-> NoPath]

\* jsonify({'success': False, 'error': msg}), status
ErrorResponse(status, msg) == [NoResp EXCEPT !.status = status, !.error = msg]

\* jsonify({'success': True, 'facesFound': ..., 'outputPath': ..., ...})
SuccessResponse(faces, out) ==
    [NoResp EXCEPT !.status = 200, !.success = TRUE, !.facesFound = faces,
                   !.outputPath = out]

\* Variant of HealthResponse that reports 503 while a request is being handled.
HealthResponseBusy ==
    IF \E r \in Requests : reqs[r].pc \notin {"idle", "done"}
    THEN [status |-> 503, fields |-> {"status", "service"}]
    ELSE [status |-> 200, fields |-> {"status", "service"}]

\* jsonify({'status': 'healthy', 'service': 'face-blur-microservice'})
HealthResponse == [status |-> 200, fields |-> {"status", "service"}]

NoReq ==
    [pc |-> "idle", body |-> "absent", content |-> "",
     input_path |-> NoPath, output_path |-> NoPath,
     success |-> FALSE, faces_found |-> 0,
     cause |-> "", downloadCalled |-> FALSE, processCalled |-> FALSE,
     tempCreated |-> FALSE, resp |-> NoResp]

Good(f) == [frames |-> f, total |-> Len(f), opens |-> TRUE, writerOk |-> TRUE,
            fault |-> NoFault]

\* The downloads the service is exercised with: what a videoUrl can serve.
Catalog ==
    LET two == <<{1}, {}>>
        long == LongFrames(ProgressEvery)
    IN  [empty |-> Good(<<>>),
         two |-> Good(two),
         long_uncounted |-> [Good(long) EXCEPT !.total = 0],
         not_a_video |-> [Good(two) EXCEPT !.opens = FALSE],
         no_writer |-> [Good(two) EXCEPT !.writerOk = FALSE],
         corrupt |-> [Good(two) EXCEPT !.fault = [at |-> 1, stage |-> "detect"]]]

Contents == DOMAIN Catalog

\* success, faces_found = process_video(input_path, output_path), per download.
ProcessResult == [c \in Contents |-> process_video(Catalog[c])]

\* Variant of Caught that answers with a fixed text instead of str(e).
CaughtGeneric(q, msg) ==
    [q EXCEPT !.pc = "done", !.cause = msg,
              !.resp = ErrorResponse(500, "Internal server error")]

\* except Exception as e: return jsonify({'success': False, 'error': str(e)}), 500
Caught(q, msg) ==
    [q EXCEPT !.pc = "done", !.cause = msg, !.resp = ErrorResponse(500, msg)]

\* blur_video, lines 158-167: parse the body and look for videoUrl.
Receive(r) ==
    /\ reqs[r].pc = "idle"
    /\ \E body \in Bodies : \E data \in get_json(body) :
         LET q == [reqs[r] EXCEPT !.body = body]
         IN  reqs' = [reqs EXCEPT ![r] =
               IF data = "raise" THEN Caught(q, "get_json failed")
               ELSE IF Falsy(data) \/ HasVideoUrl(data) = "False"
               THEN [q EXCEPT !.pc = "done",
                              !.resp = ErrorResponse(400, "Missing videoUrl parameter")]
               ELSE IF HasVideoUrl(data) = "TypeError"
               THEN Caught(q, "argument is not iterable")
               ELSE IF Subscript(data) = "TypeError"
               THEN Caught(q, "string indices must be integers")
               ELSE [q EXCEPT !.pc = "download"]]
    /\ UNCHANGED <<pv, files, healthLog>>

\* download_video(video_url) and line 173.  The GET can fail before the
\* temporary file exists, or while the chunks are written to it; tempfile
\* takes a name that no file of the directory has.
DownloadVideo(r) ==
    /\ reqs[r].pc = "download"
    /\ LET q == [reqs[r] EXCEPT !.downloadCalled = TRUE]
           free == {n \in Names : TempPath(n) \notin files}
       IN  \/ /\ reqs' = [reqs EXCEPT ![r] = Caught(q, "HTTPError")]
              /\ files' = files
           \/ \E n \in free :
                /\ files' = files \cup {TempPath(n)}
                /\ \/ reqs' = [reqs EXCEPT ![r] =
                         Caught([q EXCEPT !.tempCreated = TRUE,
                                          !.input_path = TempPath(n)],
                                "ChunkedEncodingError")]
                   \/ \E c \in Contents :
                        reqs' = [reqs EXCEPT ![r] =
                           [q EXCEPT !.pc = "process",
                                     !.tempCreated = TRUE,
                                     !.content = c,
                                     !.input_path = TempPath(n),
                                     !.output_path = ReplaceMp4(TempPath(n))]]
    /\ UNCHANGED <<pv, healthLog>>

\* blur_video, lines 176-182: process_video and the check of its result.
ProcessVideo(r) ==
    /\ reqs[r].pc = "process"
    /\ LET q == reqs[r]
           fin == IF q.input_path \in files THEN ProcessResult[q.content]
                  ELSE process_video([Catalog[q.content] EXCEPT !.opens = FALSE])
           q2 == [q EXCEPT !.processCalled = TRUE,
                           !.success = fin.success,
                           !.faces_found = fin.result]
       IN  /\ files' = IF fin.outCreated THEN files \cup {q.output_path} ELSE files
           /\ reqs' = [reqs EXCEPT ![r] =
                IF ~fin.success
                THEN [q2 EXCEPT !.pc = "done", !.cause = fin.exc,
                                !.resp = ErrorResponse(500, "Failed to process video")]
                ELSE [q2 EXCEPT !.pc = "getsize"]]
    /\ UNCHANGED <<pv, healthLog>>

\* file_size = os.path.getsize(output_path)
GetSize(r) ==
    /\ reqs[r].pc = "getsize"
    /\ LET q == reqs[r]
       IN  reqs' = [reqs EXCEPT ![r] =
              IF q.output_path \in files THEN [q EXCEPT !.pc = "remove"]
              ELSE Caught(q, "No such file or directory")]
    /\ UNCHANGED <<pv, files, healthLog>>

\* try: os.remove(input_path) except: pass
RemoveInput(r) ==
    /\ reqs[r].pc = "remove"
    /\ files' = files \ {reqs[r].input_path}
    /\ reqs' = [reqs EXCEPT ![r].pc = "respond"]
    /\ UNCHANGED <<pv, healthLog>>

\* return jsonify({'success': True, ...})
Respond(r) ==
    /\ reqs[r].pc = "respond"
    /\ LET q == reqs[r]
       IN  reqs' = [reqs EXCEPT ![r] =
              [q EXCEPT !.pc = "done",
                        !.resp = SuccessResponse(q.faces_found, q.output_path)]]
    /\ UNCHANGED <<pv, files, healthLog>>

\* GET /health
Health ==
    /\ healthLog' = HealthResponse
    /\ UNCHANGED <<pv, reqs, files>>

Init ==
    /\ pv = NoPV
    /\ reqs = [r \in Requests |-> NoReq]
    /\ files = {}
    /\ healthLog = [status |-> 0, fields |-> {}]

Next ==
    \/ \E r \in Requests : Receive(r)
    \/ \E r \in Requests : DownloadVideo(r)
    \/ \E r \in Requests : ProcessVideo(r)
    \/ \E r \in Requests : GetSize(r)
    \/ \E r \in Requests : RemoveInput(r)
    \/ \E r \in Requests : Respond(r)
    \/ Health

Spec == Init /\ [][Next]_vars

InitPipe ==
    /\ pv \in {StartPV(v) : v \in Videos}
    /\ reqs = [r \in Requests |-> NoReq]
    /\ files = {}
    /\ healthLog = [status |-> 0, fields |-> {}]

NextPipe ==
    \/ PipeOpen \/ PipeProps \/ PipeRead \/ PipeDetect \/ PipeBlur
    \/ PipeWrite \/ PipeProgress \/ PipeRelease \/ PipeExcept

SpecPipe == InitPipe /\ [][NextPipe]_vars

(***************************************************************************)
(* Claims about the HTTP service (Spec)                                    *)
(***************************************************************************)
Done(r) == reqs[r].pc = "done"
InFlight(r) == reqs[r].pc \notin {"idle", "done"}
HasVideoUrlKey(r) == reqs[r].body = "object_with_key"

\* C1: every request without a videoUrl is answered 400 with success=false, and
\* neither download_video nor process_video runs, and no temporary file is made.
C1_MissingVideoUrlIs400 ==
    \A r \in Requests :
        (Done(r) /\ ~HasVideoUrlKey(r)) =>
            /\ reqs[r].resp.status = 400
            /\ ~reqs[r].resp.success
            /\ ~reqs[r].downloadCalled
            /\ ~reqs[r].processCalled
            /\ ~reqs[r].tempCreated

\* C2 as stated: every failure of a request with a videoUrl is answered 500 with
\* success=false and the error field is the message of the causing exception.
C2_ErrorIsExceptionMessage ==
    \A r \in Requests :
        (Done(r) /\ HasVideoUrlKey(r) /\ reqs[r].cause # "") =>
            /\ reqs[r].resp.status = 500
            /\ ~reqs[r].resp.success
            /\ reqs[r].resp.error = reqs[r].cause

\* C2 as amended: every failure of a request with a videoUrl is answered 500 with
\* success=false; the error field is the exception's message when the exception
\* reached blur_video (download, output size), and the fixed text "Failed to
\* process video" when process_video caught it and returned False.
C2_FailureIs500 ==
    \A r \in Requests :
        (Done(r) /\ HasVideoUrlKey(r)) =>
            /\ (reqs[r].cause # "") <=> (reqs[r].resp.status = 500)
            /\ (reqs[r].cause # "") =>
                 /\ ~reqs[r].resp.success
                 /\ reqs[r].resp.error =
                       IF reqs[r].processCalled /\ ~reqs[r].success
                       THEN "Failed to process video"
                       ELSE reqs[r].cause

\* A state with one request failed inside process_video and one failed in the
\* download.
C2_Witness ==
    \E r1, r2 \in Requests :
        /\ Done(r1) /\ reqs[r1].cause = "Could not open video file"
        /\ reqs[r1].resp.error = "Failed to process video"
        /\ Done(r2) /\ reqs[r2].cause = "HTTPError"
        /\ reqs[r2].resp.error = "HTTPError"

\* C3: when a request that created an input temporary file has been answered
\* (200 or 500) the input file is deleted, and after a 200 the output file named
\* by outputPath exists.
C3_InputDeletedOutputKept ==
    \A r \in Requests :
        Done(r) =>
            /\ reqs[r].tempCreated => reqs[r].input_path \notin files
            /\ reqs[r].resp.status = 200 => reqs[r].resp.outputPath \in files

Valid(v) == v.opens /\ v.writerOk /\ v.fault = NoFault

\* C4: a valid request (download succeeds, the file opens, every frame is
\* decoded, detected and written without an exception) is answered 200 with
\* success=true and facesFound >= 0, whatever the number of frames.
C4_ValidRequestIs200 ==
    \A r \in Requests :
        (Done(r) /\ reqs[r].processCalled /\ Valid(Catalog[reqs[r].content])) =>
            /\ reqs[r].resp.status = 200
            /\ reqs[r].resp.success
            /\ reqs[r].resp.facesFound >= 0

\* C5: GET /health answers 200 with the fields status and service in every
\* state of the service.
C5_HealthAlways200 ==
    healthLog.status # 0 =>
        /\ healthLog.status = 200
        /\ healthLog.fields = {"status", "service"}

\* /health has answered while one request is being handled and another failed.
C5_Witness ==
    /\ healthLog.status = 200
    /\ \E r1, r2 \in Requests :
         /\ reqs[r1].pc = "process"
         /\ Done(r2) /\ reqs[r2].resp.status = 500

\* What a request answers when it is the only one: the result of process_video
\* on its download, and 500 when the writer made no output file.
AloneStatus(c) ==
    IF ProcessResult[c].success /\ Catalog[c].writerOk THEN 200 ELSE 500

AloneFaces(c) ==
    IF ProcessResult[c].success /\ Catalog[c].writerOk THEN ProcessResult[c].result ELSE 0

\* C6: concurrent requests have their own input path and their own output
\* path, and each answers (status, facesFound) as if it had run alone.
C6_RequestsIsolated ==
    /\ \A r1, r2 \in Requests :
         (r1 # r2 /\ InFlight(r1) /\ InFlight(r2)
            /\ reqs[r1].input_path # NoPath /\ reqs[r2].input_path # NoPath) =>
              /\ reqs[r1].input_path # reqs[r2].input_path
              /\ reqs[r1].output_path # reqs[r2].output_path
    /\ \A r \in Requests :
         (Done(r) /\ reqs[r].processCalled) =>
              /\ reqs[r].resp.status = AloneStatus(reqs[r].content)
              /\ reqs[r].resp.facesFound = AloneFaces(reqs[r].content)

(***************************************************************************)
(* Claims about process_video (SpecPipe)                                   *)
(***************************************************************************)
Returned == pv.pc = "returned"

FrameEvents(i, faces) ==
    <<Event("read", i), Event("detect", i)>>
        \o (IF faces # {} THEN <<Event("blur", i)>> ELSE <<>>)
        \o <<Event("write", i)>>

RECURSIVE LinearTrace(_, _)
LinearTrace(frames, n) ==
    IF n = 0 THEN <<>>
    ELSE LinearTrace(frames, n - 1) \o FrameEvents(n, frames[n])

\* C7: each frame read is detected, blurred only when a face was found, and
\* written exactly once before the next read; on success the frames written are
\* the frames read, in input order, and the loop ended at the first failed read.
C7_PipelineLinear ==
    /\ pv.pc \in {"detect", "blur", "write"} => Len(pv.written) = pv.frame_count - 1
    /\ pv.pc \in {"read", "progress", "release"} => Len(pv.written) = pv.frame_count
    /\ (Returned /\ pv.success) =>
         /\ pv.frame_count = Len(pv.video.frames)
         /\ pv.reads = pv.frame_count + 1
         /\ Len(pv.written) = pv.frame_count
         /\ \A i \in 1..Len(pv.written) : pv.written[i].idx = i
         /\ pv.trace = Append(LinearTrace(pv.video.frames, pv.frame_count),
                              Event("eof", pv.frame_count + 1))

\* A successful run over two or more frames, one blurred and one not.
C7_Witness ==
    /\ Returned /\ pv.success /\ pv.frame_count >= 2
    /\ \E i, j \in 1..Len(pv.written) :
         pv.written[i].blurred # {} /\ pv.written[j].blurred = {}

RECURSIVE SumFaces(_, _)
SumFaces(frames, n) ==
    IF n = 0 THEN 0 ELSE SumFaces(frames, n - 1) + Cardinality(frames[n])

\* C8: facesFound is the sum over the frames read of the rectangles detected in
\* each (a face seen in k frames counts k times), and the blur of a frame is
\* that of the rectangles detected in the same frame.
C8_FacesFoundIsSum ==
    /\ pv.pc = "read" => pv.faces_found = SumFaces(pv.video.frames, pv.frame_count)
    /\ (Returned /\ pv.success) =>
         /\ pv.result = SumFaces(pv.video.frames, Len(pv.video.frames))
         /\ \A i \in 1..Len(pv.written) :
              pv.written[i].blurred = pv.video.frames[pv.written[i].idx]

\* A successful run where one rectangle is seen in two frames, one of them
\* followed by a frame without it.
C8_Witness ==
    /\ Returned /\ pv.success /\ pv.result >= 2
    /\ \E x \in Rects : \E i, j \in 1..Len(pv.video.frames) :
         /\ i < j
         /\ x \in pv.video.frames[i] /\ x \in pv.video.frames[j]
         /\ j < Len(pv.video.frames) /\ x \notin pv.video.frames[j + 1]

\* C9: on every exit of process_video every capture and writer that was
\* opened has been released.
C9_ReleasedOnEveryExit ==
    Returned =>
        /\ pv.capOpened => ~pv.capOpen
        /\ pv.outOpened => ~pv.outOpen

\* C10: when frame_count reaches a multiple of 30 total_frames is not zero, so
\* the progress log never raises a division by zero.
C10_NoDivisionByZero ==
    /\ (pv.pc = "progress" /\ pv.frame_count % ProgressEvery = 0) => pv.total_frames # 0
    /\ pv.exc # "division by zero"

====
